---- MODULE Spec2Model ----
(***************************************************************************)
(* Model of pkg/terraform/exec/exec.go: the runner that dispatches a named *)
(* terraform sub-command, intercepts the process error stream through an   *)
(* in-process pipe, and bridges OS signals to the handler's shutdown       *)
(* channel.                                                                *)
(*                                                                         *)
(* Goroutines are modelled as processes with their own position: the       *)
(* runner (pc), and per invocation the signal forwarder (fwd) and the      *)
(* pipe scanner (scanner).  Invocations are sequential; goroutines and     *)
(* channels of earlier invocations stay in the state.                      *)
(***************************************************************************)
EXTENDS Integers, Sequences, FiniteSets, TLC

\* ---------------------------------------------------------------- bounds
MaxInvocations == 2
MaxIoInvocations == 1
MaxSignals == 3
MaxWrites == 2
NumLevels == 2
MaxExit == 1
MaxBurst == 6
MaxBurstInvocations == 1

\* ------------------------------------------------------ program constants
\* make(chan os.Signal, 4)
SigChCap == 4

\* A pipe failure reported as success.
PipeFailCodeOk == 1 - 1

\* return 1 when os.Pipe fails
PipeFailCode == 1

Invs == 1..MaxInvocations

\* os.Stderr handles: 0 is the handle the process started with, i > 0 is the
\* write end of the pipe created by invocation i.
OrigStderr == 0

\* The command registry (var commands): name -> constructor.  A constructor
\* is represented by the name of the command it builds.
commands ==
    [n \in {"apply", "destroy", "init"} |->
        CASE n = "apply"   -> "ApplyCommand"
          [] n = "destroy" -> "ApplyCommand{Destroy}"
          [] n = "init"    -> "InitCommand"]

\* Names runner can be called with: the registered ones and one that is not.
Names == (DOMAIN commands) \cup {"plan"}

\* The zero value of cmdFunc, which the map index yields for a missing key.
NilFunc == "nil"

\* ignoreSignals / forwardSignals: two disjoint, non-empty sets of signal
\* kinds defined per platform outside exec.go.
ignoreSignals == {"SIGINT"}
forwardSignals == {"SIGTERM"}

\* A kind neither set names.
Signals == ignoreSignals \cup forwardSignals \cup {"SIGHUP"}

\* A registration for every kind of signal.
handleAll == Signals

\* handle := ignoreSignals ++ forwardSignals (lines 123-125)
handle == ignoreSignals \cup forwardSignals

\* ioutil.Discard
Discard == 0

VARIABLES
    osStderr,     \* the process-wide os.Stderr handle
    logOutput,    \* the global logger's writer: <<"lf", i>> or <<"file", h>>
    handlers,     \* os/signal registrations: signal kind -> set of channels
    inv,          \* number of the current (or last) invocation, 0 before any
    pc,           \* position of the runner
    cmd,          \* runner's cmd argument
    level,        \* per invocation: what logging.LogLevel() returned
    lf,           \* per invocation: Discard or the LevelFilter's MinLevel
    savedLog,     \* argument captured by defer log.SetOutput(os.Stderr)
    f,            \* runner's f := commands[cmd]
    oldStderr,    \* runner's oldStderr
    pluginDirs,   \* the current invocation's meta.GlobalPluginDirs
    exit,         \* how the current invocation ended, and its handler's code
    trace,        \* the current invocation's steps so far, in order
    fwd,          \* per invocation: forwarding goroutine's position
    signalCh,     \* per invocation: buffered signal channel contents
    events,       \* per invocation: signal kinds whose event was received
    consumer,     \* per invocation: is someone receiving from resultCh
    scanner,      \* per invocation: scanner goroutine's position
    pipe,         \* per invocation: unread lines in the pipe
    wClosed,      \* per invocation: pipe write end closed
    sink,         \* per invocation: what reached the stdout writer
    wrote,        \* per invocation: lines written to the swapped os.Stderr
    errSink,      \* messages the current invocation wrote to the stderr writer
    nwrite,       \* writes the handlers made so far
    bridge,       \* per invocation: calls of makeShutdownCh and of its cancel
    recvd,        \* per invocation: signals the runtime offered to signalCh
    burst,        \* per invocation: a signal came while an earlier one was pending
    nsig,         \* signals raised so far
    lost          \* per invocation: signals dropped because the channel was full

vars == <<osStderr, logOutput, handlers, inv, pc, cmd, level, lf, savedLog, f,
          oldStderr, pluginDirs, exit, trace, fwd, signalCh, events, consumer, scanner,
          pipe, wClosed, sink, wrote, errSink, nwrite, bridge, recvd, burst,
          nsig, lost>>

procVars == <<osStderr, logOutput>>
runVars == <<inv, pc, cmd, level, lf, savedLog, f, oldStderr, pluginDirs, exit,
            trace>>
sigVars == <<handlers, fwd, signalCh, events, consumer, bridge, recvd, burst,
            nsig, lost>>
ioVars == <<scanner, pipe, wClosed, sink, wrote, errSink, nwrite>>

NoExit == [kind |-> "none", code |-> 0, handler |-> -1]

Init ==
    /\ osStderr = OrigStderr
    /\ logOutput = <<"file", OrigStderr>>
    /\ handlers = [s \in Signals |-> {}]
    /\ inv = 0
    /\ pc = "idle"
    /\ cmd = "apply"
    /\ level = [i \in Invs |-> 0]
    /\ lf = [i \in Invs |-> Discard]
    /\ savedLog = OrigStderr
    /\ f = NilFunc
    /\ oldStderr = OrigStderr
    /\ pluginDirs = <<>>
    /\ exit = NoExit
    /\ trace = <<>>
    /\ fwd = [i \in Invs |-> [at |-> "none", sig |-> "-"]]
    /\ signalCh = [i \in Invs |-> <<>>]
    /\ events = [i \in Invs |-> <<>>]
    /\ consumer = [i \in Invs |-> FALSE]
    /\ scanner = [i \in Invs |-> "none"]
    /\ pipe = [i \in Invs |-> <<>>]
    /\ wClosed = [i \in Invs |-> FALSE]
    /\ sink = [i \in Invs |-> <<>>]
    /\ wrote = [i \in Invs |-> <<>>]
    /\ errSink = {}
    /\ nwrite = 0
    /\ bridge = [i \in Invs |-> [starts |-> 0, cancels |-> 0]]
    /\ recvd = [i \in Invs |-> <<>>]
    /\ burst = [i \in Invs |-> FALSE]
    /\ nsig = 0
    /\ lost = [i \in Invs |-> 0]

\* ------------------------------------------------------------ log filter
\* logging.LogLevel(): 0 stands for the empty string (nothing configured),
\* 1..NumLevels for the recognised levels, lowest first.
LogLevels == 0..NumLevels

\* A non-empty level that is none of the recognised ones.
Unrecognised == NumLevels + 1

\* Every level runner may get: runner takes the string as it comes.
Settings == LogLevels \cup {Unrecognised}

\* A filter at the lowest level even when nothing is configured.
SelectLfAlways(lv) == IF lv # 0 THEN lv ELSE 1

\* Lines 39-46: lf is ioutil.Discard unless a level is configured, in which
\* case it is a LevelFilter with that MinLevel writing to stdout.
SelectLf(lv) == IF lv # 0 THEN lv ELSE Discard

\* logutils.LevelFilter's decision for a line carrying severity sev.
Check(minLevel, sev) == sev >= minLevel

\* A Write to lf of one line; out is the stdout writer's content so far.
LfWrite(l, out, item) ==
    IF l = Discard THEN out
    ELSE IF Check(l, item.sev) THEN Append(out, item) ELSE out

\* bufio.Scanner with ScanLines: the token is the line without its
\* terminator.
ScanBytes(line) == [sev |-> line.sev]

\* The token written without a terminator.
FormatLineRaw(tok) == [sev |-> tok.sev, nl |-> FALSE, via |-> "stderr"]

\* fmt.Fprintf(lf, "%s\n", scanner.Bytes()) (line 81): the token followed by
\* one terminator.
FormatLine(tok) == [sev |-> tok.sev, nl |-> TRUE, via |-> "stderr"]

\* log.Printf: the logger terminates every entry with a newline.
LogEntry(sev) == [sev |-> sev, nl |-> TRUE, via |-> "log"]

\* Scanner can yield the head of the pipe: it is terminated, or the write end
\* is closed and it is the final unterminated text.
TokenReady(i) ==
    /\ pipe[i] # <<>>
    /\ Head(pipe[i]).nl \/ wClosed[i]

\* A write of text to the pipe: it continues an unterminated last line or
\* starts a new one.
PipeWrite(p, sev, nl) ==
    IF p # <<>> /\ ~p[Len(p)].nl
    THEN [p EXCEPT ![Len(p)].nl = nl]
    ELSE Append(p, [sev |-> sev, nl |-> nl])

\* -------------------------------------------------------------- os/signal
\* signal.Notify(ch, sigs...)
Notify(h, ch, sigs) == [s \in Signals |-> IF s \in sigs THEN h[s] \cup {ch} ELSE h[s]]

\* signal.Reset(sigs...): undoes every Notify for these kinds.
Reset(h, sigs) == [s \in Signals |-> IF s \in sigs THEN {} ELSE h[s]]

\* Delivery to a channel made with room for one signal.
DeliverNarrow(ch, s) == IF Len(ch) < 1 THEN Append(ch, s) ELSE ch

\* The runtime's delivery to one registered channel: a non-blocking send.
Deliver(ch, s) == IF Len(ch) < SigChCap THEN Append(ch, s) ELSE ch

\* makeShutdownCh (lines 119-136): registers the new channel for handle and
\* starts the forwarding goroutine.
MakeShutdownCh(i) ==
    /\ handlers' = Notify(handlers, i, handle)
    /\ fwd' = [fwd EXCEPT ![i] = [at |-> "recv", sig |-> "-"]]
    /\ bridge' = [bridge EXCEPT ![i].starts = @ + 1]

\* A cancel that leaves the registration in place.
CancelLeak(i) ==
    /\ handlers' = handlers
    /\ fwd' = fwd
    /\ bridge' = [bridge EXCEPT ![i].cancels = @ + 1]

\* The cancel function makeShutdownCh returns (line 135): signal.Reset; the
\* forwarding goroutine is left as it is.
Cancel(i) ==
    /\ handlers' = Reset(handlers, handle)
    /\ fwd' = fwd
    /\ bridge' = [bridge EXCEPT ![i].cancels = @ + 1]

\* ------------------------------------------------------------- the runner
Step(s) == trace' = Append(trace, s)

\* Lines 38-51: choose lf, point the logger at it, and register the deferred
\* log.SetOutput(os.Stderr), whose argument is evaluated here.
RunnerEnter(c, lv, max) ==
    /\ pc = "idle"
    /\ inv < max
    /\ inv' = inv + 1
    /\ cmd' = c
    /\ level' = [level EXCEPT ![inv'] = lv]
    /\ lf' = [lf EXCEPT ![inv'] = SelectLf(lv)]
    /\ logOutput' = <<"lf", inv'>>
    /\ savedLog' = osStderr
    /\ trace' = <<"setlog">>
    /\ exit' = NoExit
    /\ pluginDirs' = <<>>
    /\ errSink' = {}
    /\ pc' = "bridge"
    /\ UNCHANGED <<osStderr, f, oldStderr>>
    /\ UNCHANGED <<scanner, pipe, wClosed, sink, wrote, nwrite>>
    /\ UNCHANGED sigVars

\* A runner that goes on to build the Meta without a shutdown channel.
RunnerSkipShutdownCh ==
    /\ pc = "bridge"
    /\ pc' = "meta"
    /\ UNCHANGED <<pluginDirs, inv, cmd, level, lf, savedLog, f, oldStderr, exit,
                   trace>>
    /\ UNCHANGED procVars
    /\ UNCHANGED sigVars
    /\ UNCHANGED ioVars

\* Lines 53-54.
RunnerMakeShutdownCh ==
    /\ pc = "bridge"
    /\ MakeShutdownCh(inv)
    /\ Step("bridge")
    /\ pc' = "meta"
    /\ UNCHANGED <<pluginDirs, inv, cmd, level, lf, savedLog, f, oldStderr, exit>>
    /\ UNCHANGED <<signalCh, events, consumer, recvd, burst, nsig, lost>>
    /\ UNCHANGED procVars
    /\ UNCHANGED ioVars

\* configDir's result when it succeeds; configDir is defined outside exec.go.
ConfigDir == <<"home", ".terraform.d">>

\* fmt.Sprintf("%s_%s", runtime.GOOS, runtime.GOARCH)
MachineDir == "linux" \o "_" \o "amd64"

\* filepath.Join of a path, kept as its sequence of elements, and one more.
Join(dir, elem) == Append(dir, elem)

\* A resolution that lists the machine directory first.
globalPluginDirsSwapped(ok) ==
    IF ok
    THEN [dirs |-> <<Join(Join(ConfigDir, "plugins"), MachineDir),
                     Join(ConfigDir, "plugins")>>,
          msg |-> {}]
    ELSE [dirs |-> <<>>, msg |-> {"Error finding global config directory"}]

\* globalPluginDirs (lines 138-151): the directories, and the message written
\* when configDir fails.
globalPluginDirs(ok) ==
    IF ok
    THEN [dirs |-> <<Join(ConfigDir, "plugins"),
                     Join(Join(ConfigDir, "plugins"), MachineDir)>>,
          msg |-> {}]
    ELSE [dirs |-> <<>>, msg |-> {"Error finding global config directory"}]

\* Lines 56-67: build command.Meta.
RunnerBuildMeta(ok) ==
    /\ pc = "meta"
    /\ pluginDirs' = globalPluginDirs(ok).dirs
    /\ errSink' = errSink \cup globalPluginDirs(ok).msg
    /\ Step(IF ok THEN "meta" ELSE "meta-nodirs")
    /\ pc' = "lookup"
    /\ UNCHANGED <<inv, cmd, level, lf, savedLog, f, oldStderr, exit>>
    /\ UNCHANGED <<scanner, pipe, wClosed, sink, wrote, nwrite>>
    /\ UNCHANGED procVars
    /\ UNCHANGED sigVars

\* commands[cmd]: the zero value for a missing key.
Lookup(c) == IF c \in DOMAIN commands THEN commands[c] ELSE NilFunc

\* Line 69.
RunnerLookup ==
    /\ pc = "lookup"
    /\ f' = Lookup(cmd)
    /\ Step("lookup")
    /\ pc' = "pipe"
    /\ UNCHANGED <<pluginDirs, inv, cmd, level, lf, savedLog, oldStderr, exit>>
    /\ UNCHANGED procVars
    /\ UNCHANGED sigVars
    /\ UNCHANGED ioVars

\* Lines 71-76 when os.Pipe fails: report and return 1; the deferred calls
\* registered so far run.
RunnerPipeFail ==
    /\ pc = "pipe"
    /\ oldStderr' = osStderr
    /\ errSink' = errSink \cup {"error creating Pipe"}
    /\ exit' = [exit EXCEPT !.code = PipeFailCode]
    /\ Step("pipefail")
    /\ pc' = "defer_cancel"
    /\ UNCHANGED <<pluginDirs, inv, cmd, level, lf, savedLog, f>>
    /\ UNCHANGED <<scanner, pipe, wClosed, sink, wrote, nwrite>>
    /\ UNCHANGED procVars
    /\ UNCHANGED sigVars

\* Lines 71-87 when os.Pipe succeeds: swap os.Stderr for the write end, start
\* the scanner goroutine, register the deferred close-and-restore.
RunnerPipeOk ==
    /\ pc = "pipe"
    /\ oldStderr' = osStderr
    /\ osStderr' = inv
    /\ scanner' = [scanner EXCEPT ![inv] = "scan"]
    /\ Step("swap")
    /\ pc' = "call"
    /\ UNCHANGED <<pluginDirs, inv, cmd, level, lf, savedLog, f, exit>>
    /\ UNCHANGED <<pipe, wClosed, sink, wrote, errSink, nwrite>>
    /\ UNCHANGED logOutput
    /\ UNCHANGED sigVars

\* Line 88, f(meta): calling the nil function panics; otherwise the handler
\* is constructed and its Run begins.
RunnerCall ==
    /\ pc = "call"
    /\ IF f = NilFunc
       THEN /\ exit' = [exit EXCEPT !.kind = "panicking"]
            /\ Step("nilcall")
            /\ pc' = "defer_restore"
            /\ consumer' = consumer
       ELSE /\ exit' = exit
            /\ Step("run")
            /\ pc' = "run"
            /\ consumer' = [consumer EXCEPT ![inv] = TRUE]
    /\ UNCHANGED <<pluginDirs, inv, cmd, level, lf, savedLog, f, oldStderr>>
    /\ UNCHANGED <<handlers, fwd, signalCh, events, bridge, recvd, burst, nsig, lost>>
    /\ UNCHANGED procVars
    /\ UNCHANGED ioVars

\* The handler's Run writes text to os.Stderr, which is the pipe's write end.
HandlerWrite(sev, nl) ==
    /\ pc = "run"
    /\ osStderr = inv
    /\ nwrite < MaxWrites
    /\ nwrite' = nwrite + 1
    /\ LET cont == pipe[inv] # <<>> /\ ~pipe[inv][Len(pipe[inv])].nl
       IN wrote' = [wrote EXCEPT ![inv] = IF cont THEN @ ELSE Append(@, sev)]
    /\ pipe' = [pipe EXCEPT ![inv] = PipeWrite(@, sev, nl)]
    /\ UNCHANGED <<scanner, wClosed, sink, errSink>>
    /\ UNCHANGED procVars
    /\ UNCHANGED runVars
    /\ UNCHANGED sigVars

\* The handler's Run logs through the global logger, whose writer is lf.
HandlerLog(sev) ==
    /\ pc = "run"
    /\ logOutput = <<"lf", inv>>
    /\ nwrite < MaxWrites
    /\ nwrite' = nwrite + 1
    /\ sink' = [sink EXCEPT ![inv] = LfWrite(lf[inv], @, LogEntry(sev))]
    /\ UNCHANGED <<scanner, pipe, wClosed, wrote, errSink>>
    /\ UNCHANGED procVars
    /\ UNCHANGED runVars
    /\ UNCHANGED sigVars

\* A runner that maps every code to success.
RunResultDropped(code) == 0 * code

\* Line 88: return f(meta).Run(args).
RunResult(code) == code

\* Run returns code; stay tells whether something the handler started keeps
\* receiving from meta.ShutdownCh.
HandlerReturn(code, stay) ==
    /\ pc = "run"
    /\ exit' = [exit EXCEPT !.code = RunResult(code), !.handler = code]
    /\ consumer' = [consumer EXCEPT ![inv] = stay]
    /\ Step("handlerdone")
    /\ pc' = "defer_restore"
    /\ UNCHANGED <<pluginDirs, inv, cmd, level, lf, savedLog, f, oldStderr>>
    /\ UNCHANGED <<handlers, fwd, signalCh, events, bridge, recvd, burst, nsig, lost>>
    /\ UNCHANGED procVars
    /\ UNCHANGED ioVars

\* A restore that leaves the pipe's write end in place.
StderrKept == osStderr

\* Line 86: the handle the deferred function puts back.
StderrAfterClose == oldStderr

\* A teardown without the deferred close-and-restore.
DeferRestoreSkipped ==
    /\ pc = "defer_restore"
    /\ pc' = "defer_cancel"
    /\ UNCHANGED <<pluginDirs, inv, cmd, level, lf, savedLog, f, oldStderr, exit,
                   trace>>
    /\ UNCHANGED procVars
    /\ UNCHANGED sigVars
    /\ UNCHANGED ioVars

\* Lines 84-87: outW.Close(); os.Stderr = oldStderr.
DeferRestore ==
    /\ pc = "defer_restore"
    /\ wClosed' = [wClosed EXCEPT ![inv] = TRUE]
    /\ osStderr' = StderrAfterClose
    /\ Step("restore")
    /\ pc' = "defer_cancel"
    /\ UNCHANGED <<pluginDirs, inv, cmd, level, lf, savedLog, f, oldStderr, exit>>
    /\ UNCHANGED <<scanner, pipe, sink, wrote, errSink, nwrite>>
    /\ UNCHANGED logOutput
    /\ UNCHANGED sigVars

\* Line 54: the deferred cancel().
DeferCancel ==
    /\ pc = "defer_cancel"
    /\ Cancel(inv)
    /\ Step("cancel")
    /\ pc' = "defer_log"
    /\ UNCHANGED <<pluginDirs, inv, cmd, level, lf, savedLog, f, oldStderr, exit>>
    /\ UNCHANGED <<signalCh, events, consumer, recvd, burst, nsig, lost>>
    /\ UNCHANGED procVars
    /\ UNCHANGED ioVars

\* A teardown that leaves the logger's writer as it is.
LogKept == logOutput

\* Line 48: the writer the deferred log.SetOutput installs, its argument
\* os.Stderr having been evaluated when the defer statement ran.
LogAfter == <<"file", savedLog>>

\* Lines 51 and 48: plugin.CleanupClients(), then log.SetOutput with the
\* handle captured on entry.
DeferLog ==
    /\ pc = "defer_log"
    /\ logOutput' = LogAfter
    /\ Step("logreset")
    /\ pc' = "ret"
    /\ UNCHANGED <<pluginDirs, inv, cmd, level, lf, savedLog, f, oldStderr, exit>>
    /\ UNCHANGED osStderr
    /\ UNCHANGED sigVars
    /\ UNCHANGED ioVars

\* Control leaves runner: the caller gets the code, or the panic continues
\* into the caller and ends the process.
RunnerReturn ==
    /\ pc = "ret"
    /\ IF exit.kind = "panicking"
       THEN /\ exit' = [exit EXCEPT !.kind = "panic"]
            /\ pc' = "panicked"
       ELSE /\ exit' = [exit EXCEPT !.kind = "return"]
            /\ pc' = "idle"
    /\ Step("return")
    /\ UNCHANGED <<pluginDirs, inv, cmd, level, lf, savedLog, f, oldStderr>>
    /\ UNCHANGED procVars
    /\ UNCHANGED sigVars
    /\ UNCHANGED ioVars

\* --------------------------------------------------- scanner goroutine
\* Lines 79-82, one iteration: Scan yields a line, which is written to lf.
ScanLine(i) ==
    /\ scanner[i] = "scan"
    /\ TokenReady(i)
    /\ sink' = [sink EXCEPT ![i] = LfWrite(lf[i], @, FormatLine(ScanBytes(Head(pipe[i]))))]
    /\ pipe' = [pipe EXCEPT ![i] = Tail(@)]
    /\ UNCHANGED <<scanner, wClosed, wrote, errSink, nwrite>>
    /\ UNCHANGED procVars
    /\ UNCHANGED runVars
    /\ UNCHANGED sigVars

\* Scan returns false at end of stream and the goroutine ends.
ScanEOF(i) ==
    /\ scanner[i] = "scan"
    /\ pipe[i] = <<>>
    /\ wClosed[i]
    /\ scanner' = [scanner EXCEPT ![i] = "done"]
    /\ UNCHANGED <<pipe, wClosed, sink, wrote, errSink, nwrite>>
    /\ UNCHANGED procVars
    /\ UNCHANGED runVars
    /\ UNCHANGED sigVars

\* ------------------------------------------------ signals and forwarding
\* Signals channel i holds that no receiver has got an event for yet: the one
\* the forwarder took and is sending for, then those buffered in signalCh.
Pending(i) ==
    (IF fwd[i].at = "send" THEN <<fwd[i].sig>> ELSE <<>>) \o signalCh[i]

\* The OS raises signal s: the runtime offers it to every channel registered
\* for its kind.
Raise(s) ==
    /\ nsig' = nsig + 1
    /\ signalCh' = [i \in Invs |->
          IF i \in handlers[s] THEN Deliver(signalCh[i], s) ELSE signalCh[i]]
    /\ lost' = [i \in Invs |->
          IF i \in handlers[s] /\ Deliver(signalCh[i], s) = signalCh[i]
          THEN lost[i] + 1 ELSE lost[i]]
    /\ recvd' = [i \in Invs |->
          IF i \in handlers[s] THEN Append(recvd[i], s) ELSE recvd[i]]
    /\ burst' = [i \in Invs |->
          burst[i] \/ (i \in handlers[s] /\ Pending(i) # <<>>)]
    /\ UNCHANGED <<handlers, fwd, events, consumer, bridge>>
    /\ UNCHANGED procVars
    /\ UNCHANGED runVars
    /\ UNCHANGED ioVars

\* A signal is raised, among the few of a run with every kind of signal.
SignalArrives(s) == nsig < MaxSignals /\ Raise(s)

\* A signal is raised, among the many of a burst.
BurstArrives(s) == nsig < MaxBurst /\ Raise(s)

\* Line 130: <-signalCh.
FwdRecv(i) ==
    /\ fwd[i].at = "recv"
    /\ signalCh[i] # <<>>
    /\ fwd' = [fwd EXCEPT ![i] = [at |-> "send", sig |-> Head(signalCh[i])]]
    /\ signalCh' = [signalCh EXCEPT ![i] = Tail(@)]
    /\ UNCHANGED <<handlers, events, consumer, bridge, recvd, burst, nsig, lost>>
    /\ UNCHANGED procVars
    /\ UNCHANGED runVars
    /\ UNCHANGED ioVars

\* A forwarder that sends twice for one signal.
PublishTwice(ev, s) == Append(Append(ev, s), s)

\* One send on resultCh taken by the receiver, for the signal s it stands
\* for.
Publish(ev, s) == Append(ev, s)

\* Line 131: resultCh <- struct{}{} completes when a receiver takes it.
FwdSend(i) ==
    /\ fwd[i].at = "send"
    /\ consumer[i]
    /\ events' = [events EXCEPT ![i] = Publish(@, fwd[i].sig)]
    /\ fwd' = [fwd EXCEPT ![i] = [at |-> "recv", sig |-> "-"]]
    /\ UNCHANGED <<handlers, signalCh, consumer, bridge, recvd, burst, nsig, lost>>
    /\ UNCHANGED procVars
    /\ UNCHANGED runVars
    /\ UNCHANGED ioVars

\* The runner's own steps, with its inputs drawn from the sets of in: the
\* command names, the configured levels, whether configDir succeeds, the
\* handler's exit codes and whether a receiver outlives Run; in.max bounds
\* the number of invocations.
RunnerStep(in) ==
    \/ \E c \in in.names, lv \in in.levels : RunnerEnter(c, lv, in.max)
    \/ RunnerMakeShutdownCh
    \/ \E ok \in in.dirs : RunnerBuildMeta(ok)
    \/ RunnerLookup
    \/ RunnerPipeFail
    \/ RunnerPipeOk
    \/ RunnerCall
    \/ \E code \in in.codes, stay \in in.stays : HandlerReturn(code, stay)
    \/ DeferRestore
    \/ DeferCancel
    \/ DeferLog
    \/ RunnerReturn

\* What the handler writes and the scanner goroutines do with it.
IoStep ==
    \/ \E sev \in 1..NumLevels, nl \in BOOLEAN : HandlerWrite(sev, nl)
    \/ \E sev \in 1..NumLevels : HandlerLog(sev)
    \/ \E i \in Invs : ScanLine(i)
    \/ \E i \in Invs : ScanEOF(i)

\* Signals raised by the OS and the forwarding goroutines.
SigStep ==
    \/ \E s \in Signals : SignalArrives(s)
    \/ \E i \in Invs : FwdRecv(i)
    \/ \E i \in Invs : FwdSend(i)

\* Sequential invocations for every command name, level, configDir outcome
\* and exit code; the handlers write nothing and no signal is raised.
Next ==
    \/ RunnerStep([names |-> Names, levels |-> Settings, dirs |-> BOOLEAN,
                   codes |-> 0..MaxExit, stays |-> BOOLEAN,
                   max |-> MaxInvocations])
    \/ \E i \in Invs : ScanEOF(i)

Spec == Init /\ [][Next]_vars

\* Invocations of apply whose handler writes diagnostics, at every level.
IoNext ==
    \/ RunnerStep([names |-> {"apply"}, levels |-> LogLevels, dirs |-> {TRUE},
                   codes |-> {0}, stays |-> {FALSE}, max |-> MaxIoInvocations])
    \/ IoStep

IoSpec == Init /\ [][IoNext]_vars

\* Invocations of apply during and after which signals are raised, for every
\* exit code, with and without a receiver that outlives the handler's Run.
SigNext ==
    \/ RunnerStep([names |-> {"apply"}, levels |-> {0}, dirs |-> {TRUE},
                   codes |-> 0..MaxExit, stays |-> BOOLEAN,
                   max |-> MaxInvocations])
    \/ SigStep

SigSpec == Init /\ [][SigNext]_vars

\* Invocations of apply with signals, where every goroutine that can take a
\* step eventually takes it: the Go scheduler runs every runnable goroutine.
LiveNext ==
    \/ RunnerStep([names |-> {"apply"}, levels |-> {0}, dirs |-> {TRUE},
                   codes |-> {0}, stays |-> BOOLEAN, max |-> MaxInvocations])
    \/ \E i \in Invs : ScanEOF(i)
    \/ SigStep

LiveSpec ==
    /\ Init
    /\ [][LiveNext]_vars
    /\ WF_vars(LiveNext)
    /\ \A i \in Invs : WF_vars(ScanEOF(i))
    /\ \A i \in Invs : WF_vars(FwdRecv(i))
    /\ \A i \in Invs : WF_vars(FwdSend(i))

\* One invocation of apply during which forward-set signals are raised in
\* bursts longer than the signal channel, the handler receiving at its own
\* pace.
BurstNext ==
    \/ RunnerStep([names |-> {"apply"}, levels |-> {0}, dirs |-> {TRUE},
                   codes |-> {0}, stays |-> {FALSE},
                   max |-> MaxBurstInvocations])
    \/ \E s \in forwardSignals : BurstArrives(s)
    \/ \E i \in Invs : FwdRecv(i)
    \/ \E i \in Invs : FwdSend(i)

BurstSpec == Init /\ [][BurstNext]_vars

\* ------------------------------------------------------------ properties
InTrace(s) == \E k \in 1..Len(trace) : trace[k] = s

\* Position of step s in the current invocation's trace, 0 if absent.
StepAt(s) == IF InTrace(s) THEN CHOOSE k \in 1..Len(trace) : trace[k] = s ELSE 0

\* Control has left the current invocation.
Left == inv > 0 /\ pc \in {"idle", "panicked"}

\* Control has left invocation i.
Ended(i) == i < inv \/ (i = inv /\ Left)

Registered(i) == \E s \in Signals : i \in handlers[s]

\* C1: for a registered command name, when runner has returned (the handler
\* returned, or os.Pipe failed), os.Stderr is the handle it was on entry, and
\* so it is the process's original handle after any number of invocations.
C1_StderrRestored ==
    (pc = "idle" /\ inv > 0 /\ cmd \in DOMAIN commands)
        => (osStderr = savedLog /\ osStderr = OrigStderr)

C1_Witness ==
    /\ pc = "idle"
    /\ inv = 2
    /\ cmd \in DOMAIN commands
    /\ InTrace("restore")
    /\ exit.handler = 1

\* C2: for a registered command name, when os.Pipe succeeded, the code runner
\* returns is the code the handler's Run returned.
C2_HandlerCodeReturned ==
    (exit.kind = "return" /\ cmd \in DOMAIN commands /\ InTrace("swap"))
        => (exit.handler \in 0..MaxExit /\ exit.code = exit.handler)

C2_Witness ==
    /\ exit.kind = "return"
    /\ cmd = "destroy"
    /\ InTrace("swap")
    /\ exit.handler = 1
    /\ exit.code = 1

\* C3: for a command name that is not registered, runner returns 1 without
\* invoking a handler, with os.Stderr restored and the signal registration
\* cancelled.
C3_UnknownNameReturnsOne ==
    (Left /\ cmd \notin DOMAIN commands)
        => /\ exit.kind = "return"
           /\ exit.code = 1
           /\ exit.handler = -1
           /\ osStderr = savedLog
           /\ ~Registered(inv)

\* C4 as claimed: when os.Pipe fails the shutdown bridge has not been started
\* at any point of the invocation, and no handler has run.
C4_PipeFailNeverStartsBridge ==
    InTrace("pipefail")
        => (~InTrace("bridge") /\ bridge[inv].starts = 0 /\ ~InTrace("run"))

\* C4: when os.Pipe fails runner returns 1 and no handler is constructed or
\* run; the shutdown bridge was started before the pipe was attempted, and
\* its registration is cancelled, once, before runner returns.
C4_PipeFailCancelsBridge ==
    (Left /\ InTrace("pipefail"))
        => /\ exit.kind = "return"
           /\ exit.code = 1
           /\ exit.code # 0
           /\ exit.handler = -1
           /\ ~InTrace("run") /\ ~InTrace("nilcall")
           /\ 0 < StepAt("bridge") /\ StepAt("bridge") < StepAt("pipefail")
           /\ StepAt("pipefail") < StepAt("cancel")
           /\ bridge[inv] = [starts |-> 1, cancels |-> 1]
           /\ ~Registered(inv)

C4_Witness ==
    /\ Left
    /\ InTrace("pipefail")
    /\ cmd = "init"
    /\ exit.code = 1

\* C5 as claimed: every shutdown event is for a signal of the forward set.
C5_OnlyForwardPublishes ==
    \A i \in Invs : \A k \in 1..Len(events[i]) : events[i][k] \in forwardSignals

\* C5: every shutdown event is for a signal of the ignore set or of the
\* forward set that was received on the invocation's channel; a signal of
\* another kind publishes nothing.
C5_OnlyRegisteredPublish ==
    \A i \in Invs :
        /\ \A k \in 1..Len(events[i]) :
              events[i][k] \in ignoreSignals \cup forwardSignals
        /\ Len(events[i]) <= Len(recvd[i])

C5_Witness ==
    \E i \in Invs :
        /\ \E k \in 1..Len(events[i]) : events[i][k] \in ignoreSignals
        /\ \E k \in 1..Len(events[i]) : events[i][k] \in forwardSignals
        /\ nsig > Len(recvd[i])

\* C6: once cancel has returned, no further shutdown event is published on
\* that invocation's channel.
C6_NoEventAfterCancel ==
    [][\A i \in Invs : bridge[i].cancels > 0 => events'[i] = events[i]]_vars

\* C7: when control has left an invocation, makeShutdownCh and its cancel
\* have each been called exactly once for it and its channel is registered
\* for no signal; from then on no signal is offered to that channel.
C7_CancelledOncePerStart ==
    [][\A i \in Invs :
          /\ Ended(i)' =>
                /\ bridge'[i] = [starts |-> 1, cancels |-> 1]
                /\ ~Registered(i)'
          /\ Ended(i) =>
                /\ recvd'[i] = recvd[i]
                /\ Len(signalCh'[i]) <= Len(signalCh[i])]_vars

C7_Witness ==
    /\ inv = 1
    /\ pc = "idle"
    /\ exit.kind = "return"
    /\ Len(recvd[1]) = 1
    /\ nsig = 3

\* C8: if every signal offered to an invocation's channel came when the
\* earlier ones had been received as events, none is dropped and the events
\* received, followed by those still on their way, are those signals in
\* order: N events for N signals once nothing is pending.
C8_DrainedSignalsAllObserved ==
    \A i \in Invs :
        ~burst[i] => (lost[i] = 0 /\ events[i] \o Pending(i) = recvd[i])

C8_Witness ==
    \E i \in Invs :
        /\ ~burst[i]
        /\ Len(recvd[i]) >= 2
        /\ \A k \in 1..Len(recvd[i]) : recvd[i][k] \in forwardSignals
        /\ events[i] = recvd[i]

\* C9: when no level is configured, nothing written to the intercepted
\* os.Stderr or to the logger reaches the stdout writer.
C9_NoLevelNothingWritten ==
    \A i \in Invs : level[i] = 0 => sink[i] = <<>>

C9_Witness ==
    \E i \in Invs :
        /\ level[i] = 0
        /\ scanner[i] = "done"
        /\ Len(wrote[i]) >= 1
        /\ nwrite > Len(wrote[i])

\* The lines of invocation i the scanner has taken from the pipe so far.
Scanned(i) == SubSeq(wrote[i], 1, Len(wrote[i]) - Len(pipe[i]))

\* C10: when level S is configured, what has reached the stdout writer from
\* the intercepted os.Stderr is exactly the scanned lines of severity S or
\* above, in order, each followed by a line terminator.
C10_LevelledLinesWritten ==
    \A i \in Invs :
        level[i] # 0 =>
            LET pass == SelectSeq(Scanned(i), LAMBDA v : v >= level[i])
                got == SelectSeq(sink[i], LAMBDA e : e.via = "stderr")
            IN got = [k \in 1..Len(pass) |->
                        [sev |-> pass[k], nl |-> TRUE, via |-> "stderr"]]

C10_Witness ==
    \E i \in Invs :
        /\ level[i] = 2
        /\ scanner[i] = "done"
        /\ wrote[i] = <<1, 2>>
        /\ sink[i] = <<[sev |-> 2, nl |-> TRUE, via |-> "stderr"]>>

\* C11: with a level that is not a recognised one, the invocation starts no
\* shutdown bridge, swaps no stream and runs no handler, and runner returns a
\* non-zero code.
C11_UnrecognisedLevelRejected ==
    (inv > 0 /\ level[inv] \notin LogLevels)
        => /\ ~InTrace("bridge")
           /\ ~InTrace("swap")
           /\ ~InTrace("run")
           /\ Left => (exit.kind = "return" /\ exit.code # 0)

\* C12: with the lowest level configured, when runner has returned the
\* handler's code every line the handler wrote to os.Stderr is on the stdout
\* writer, once, followed by one terminator.
C12_LinesWrittenBeforeReturn ==
    (Left /\ exit.kind = "return" /\ InTrace("handlerdone") /\ level[inv] = 1)
        => /\ exit.code = exit.handler
           /\ SelectSeq(sink[inv], LAMBDA e : e.via = "stderr")
                = [k \in 1..Len(wrote[inv]) |->
                     [sev |-> wrote[inv][k], nl |-> TRUE, via |-> "stderr"]]

\* C13: for a command name that is not registered, the invocation builds no
\* command.Meta and starts no shutdown bridge at any point, and runner
\* returns a non-zero code.
C13_UnknownNameBuildsNothing ==
    (inv > 0 /\ cmd \notin DOMAIN commands)
        => /\ ~InTrace("meta") /\ ~InTrace("meta-nodirs")
           /\ ~InTrace("bridge")
           /\ bridge[inv].starts = 0
           /\ Left => (exit.kind = "return" /\ exit.code # 0)

\* C14: when configDir fails, globalPluginDirs writes a message to the stderr
\* writer and the Meta gets no plugin directory, and that does not end the
\* invocation: with a registered name and a pipe, the handler runs and its
\* code is returned.  When configDir succeeds the directories are
\* {base}/plugins and then {base}/plugins/{os}_{arch}, and nothing is written.
C14_PluginDirs ==
    /\ InTrace("meta-nodirs") =>
          /\ pluginDirs = <<>>
          /\ "Error finding global config directory" \in errSink
          /\ (Left /\ cmd \in DOMAIN commands /\ InTrace("swap")) =>
                /\ InTrace("run")
                /\ exit.kind = "return"
                /\ exit.code = exit.handler
    /\ InTrace("meta") =>
          /\ pluginDirs = << <<"home", ".terraform.d", "plugins">>,
                             <<"home", ".terraform.d", "plugins", "linux_amd64">> >>
          /\ "Error finding global config directory" \notin errSink

C14_Witness ==
    /\ Left
    /\ InTrace("meta-nodirs")
    /\ pluginDirs = <<>>
    /\ InTrace("handlerdone")
    /\ exit.code = 1

\* C15: the scanner goroutine ends once the pipe's write end is closed, and
\* the forwarding goroutine ends once cancel has been called.
C15_BackgroundTasksEnd ==
    \A i \in Invs :
        /\ wClosed[i] ~> (scanner[i] = "done")
        /\ (bridge[i].cancels > 0) ~> (fwd[i].at = "done")

\* An interceptor of invocation i is active: os.Stderr is its pipe, or its
\* scanner goroutine has not ended.
Intercepting(i) == osStderr = i \/ scanner[i] = "scan"

\* C16: over sequential invocations at most one stderr interceptor, its
\* scanner included, is active at any time.
C16_OneInterceptor ==
    Cardinality({i \in Invs : Intercepting(i)}) <= 1

\* Position of the step that built command.Meta, 0 if absent.
MetaAt == IF InTrace("meta") THEN StepAt("meta") ELSE StepAt("meta-nodirs")

\* C17 as claimed: the stderr interceptor is started first, then the shutdown
\* bridge, then the handler is looked up, then it runs.
C17_InterceptorThenBridge ==
    InTrace("run")
        => /\ 0 < StepAt("swap")
           /\ StepAt("swap") < StepAt("bridge")
           /\ StepAt("bridge") < StepAt("lookup")
           /\ StepAt("lookup") < StepAt("run")

\* C17: within one invocation the logger is pointed at lf, then the shutdown
\* bridge is started, then command.Meta is built, then the handler is looked
\* up, then the stderr interceptor is started, and only then the handler runs.
C17_BridgeThenInterceptor ==
    InTrace("run")
        => /\ StepAt("setlog") = 1
           /\ StepAt("setlog") < StepAt("bridge")
           /\ StepAt("bridge") < MetaAt
           /\ MetaAt < StepAt("lookup")
           /\ StepAt("lookup") < StepAt("swap")
           /\ StepAt("swap") < StepAt("run")
           /\ bridge[inv].starts = 1

C17_Witness ==
    /\ InTrace("run")
    /\ pc = "run"
    /\ StepAt("bridge") = 2
    /\ StepAt("swap") = 5
    /\ osStderr = inv
    /\ Registered(inv)

\* C18 as claimed: after the handler returns, the shutdown bridge is released
\* before the stderr interceptor, and both before runner returns.
C18_BridgeReleasedFirst ==
    (Left /\ InTrace("handlerdone"))
        => /\ 0 < StepAt("cancel")
           /\ StepAt("cancel") < StepAt("restore")
           /\ StepAt("restore") < StepAt("return")

\* C18: after the handler returns, the stderr interceptor is released (write
\* end closed, os.Stderr restored) before the shutdown bridge (registration
\* cancelled), and both before runner returns: the reverse of the order in
\* which they were acquired.
C18_InterceptorReleasedFirst ==
    (Left /\ InTrace("handlerdone"))
        => /\ StepAt("bridge") < StepAt("swap")
           /\ StepAt("handlerdone") < StepAt("restore")
           /\ StepAt("restore") < StepAt("cancel")
           /\ StepAt("cancel") < StepAt("return")
           /\ wClosed[inv]
           /\ osStderr = OrigStderr
           /\ ~Registered(inv)

C18_Witness ==
    /\ Left
    /\ InTrace("handlerdone")
    /\ StepAt("restore") + 1 = StepAt("cancel")
    /\ exit.kind = "return"
    /\ inv = 2

\* The runtime offers a signal to channel i in this step.
Offered(i) == recvd'[i] # recvd[i]

\* C19: the events published never outnumber the signals received; a signal
\* that comes while fewer than SigChCap are pending is queued behind them and
\* none is lost, so the events, with those still pending, are the signals
\* received; a signal that finds the channel full is dropped, the channel is
\* left as it was and the step is taken all the same.
C19_BurstsCoalesce ==
    [][\A i \in Invs :
          /\ Len(events'[i]) <= Len(recvd'[i])
          /\ Len(signalCh'[i]) <= SigChCap
          /\ Len(events'[i]) + Len(Pending(i)') + lost'[i] = Len(recvd'[i])
          /\ lost'[i] = 0 => events'[i] \o Pending(i)' = recvd'[i]
          /\ (Offered(i) /\ Len(Pending(i)) < SigChCap) =>
                /\ lost'[i] = lost[i]
                /\ Pending(i)' = Append(Pending(i), recvd'[i][Len(recvd'[i])])
          /\ (Offered(i) /\ Len(signalCh[i]) = SigChCap) =>
                /\ lost'[i] = lost[i] + 1
                /\ signalCh'[i] = signalCh[i]
                /\ nsig' = nsig + 1]_vars

C19_Witness ==
    \E i \in Invs :
        /\ lost[i] = 1
        /\ Len(recvd[i]) = 6
        /\ Len(events[i]) = 5
        /\ Pending(i) = <<>>

\* C20: from entry until the last deferred call the logger writes to the
\* invocation's lf; when control has left runner, by return or by panic, the
\* logger writes to the os.Stderr handle that was current on entry, not to
\* lf and not to a pipe's write end.
C20_LoggerReset ==
    /\ (inv > 0 /\ pc \notin {"idle", "panicked", "ret"})
          => logOutput = <<"lf", inv>>
    /\ Left
          => /\ logOutput = <<"file", savedLog>>
             /\ savedLog = OrigStderr
             /\ logOutput[2] \notin Invs

C20_Witness ==
    /\ pc = "panicked"
    /\ level[inv] = 2
    /\ inv = 2
    /\ logOutput = <<"file", OrigStderr>>

====
